---- MODULE Spec2Model ----
(***************************************************************************)
(* Model of the TupleCompare repository: the MsgPack scalar codec          *)
(* (MsgPack.h, ByteSwap.h), the Tuple record with its offset table and     *)
(* the key-definition driven comparators (main.cpp).                        *)
(*                                                                         *)
(* Integers of the program are modelled with their width: a value of a     *)
(* w-byte unsigned type is a sequence of w bytes, most significant first.  *)
(* Memory is a sequence of bytes; a cursor is a 0-based offset into it,     *)
(* so the byte under cursor p is data[p + 1].                              *)
(*                                                                         *)
(* Two facts of the build are part of the state: the byte order of the     *)
(* host, which decides what memcpy of an integer object copies, and        *)
(* NDEBUG, which decides whether an assert stops the process.              *)
(*                                                                         *)
(* Specifications:                                                         *)
(*   CodecSpec      one value encoded into a buffer and decoded again, or  *)
(*                  foreign bytes handed to a decoder                      *)
(*   TupleSpec      one Tuple reset and filled field by field              *)
(*   Spec           bench_key_def on every KeyDef: the tuples are          *)
(*                  generated, then every pair is compared                 *)
(*   FirstUintSpec  Spec for the key on the first uint field               *)
(***************************************************************************)
EXTENDS Integers, Sequences, FiniteSets, TLC

VARIABLES
    host,       \* native byte order of the machine: "little" or "big"
    NDEBUG,     \* TRUE when <cassert> is compiled with NDEBUG (assert is a no-op)
    cpc,        \* codec scenario position: "start", "encoded", "decoded"
    input,      \* codec scenario: the value handed to the encoder (or raw bytes)
    buf,        \* codec scenario: the caller's byte buffer
    wcur,       \* codec scenario: the cursor after encoding
    dec,        \* codec scenario: what the decoder returned
    def,        \* benchmark: the KeyDef under test
    tuples,     \* benchmark: the global array Tuple tuples[N]
    gi,         \* benchmark: index of the tuple being generated (N when all are)
    gj,         \* benchmark: next field of tuples[gi] to add (-1 before its reset)
    fields,     \* history: the values appended to each tuple since its reset
    cmp         \* benchmark: the calls of def->tuple_compare_f and what they returned

cvars == <<cpc, input, buf, wcur, dec>>
bvars == <<def, tuples, gi, gj, fields, cmp>>
vars == <<host, NDEBUG, cvars, bvars>>

Byte == 0..255
Hosts == {"little", "big"}

-----------------------------------------------------------------------------
(* Fixed-width unsigned integers as byte sequences, most significant first *)

Reverse(s) == [i \in 1..Len(s) |-> s[Len(s) + 1 - i]]

Zeros(n) == [i \in 1..n |-> 0]

\* Conversion of an unsigned value to a narrower unsigned type: modulo 2^(8w).
Trunc(num, w) == SubSeq(num, Len(num) - w + 1, Len(num))

\* Conversion of an unsigned value to a wider unsigned type.
Widen(num, w) == Zeros(w - Len(num)) \o num

\* A small natural number as a w-byte unsigned integer.
NatToNum(n, w) ==
    [i \in 1..w |-> IF w - i >= 4 THEN 0 ELSE (n \div (256 ^ (w - i))) % 256]

\* Value of a (small) unsigned integer, for cursor arithmetic.
NumToNat(num) ==
    LET w == Len(num)
        D(i) == IF i >= 1 THEN num[i] ELSE 0
    IN  D(w) + 256 * D(w - 1) + 65536 * D(w - 2) + 16777216 * D(w - 3)

\* a < b on unsigned integers of the same width.
NumLess(a, b) ==
    \E i \in 1..Len(a) :
        /\ a[i] < b[i]
        /\ \A j \in 1..(i - 1) : a[j] = b[j]

NumLeq(a, b) == a = b \/ NumLess(a, b)

U64(n) == NatToNum(n, 8)
UINT8_MAX == <<0, 0, 0, 0, 0, 0, 0, 255>>
UINT16_MAX == <<0, 0, 0, 0, 0, 0, 255, 255>>
UINT32_MAX == <<0, 0, 0, 0, 255, 255, 255, 255>>

-----------------------------------------------------------------------------
(* ByteSwap.h *)

\* bswap reverses the bytes of the value (the identity on uint8_t).
bswap(t) == Reverse(t)

-----------------------------------------------------------------------------
(* Object representation: what memcpy(&t, ...) sees on this host *)

\* Bytes of the object t in memory, lowest address first.
ObjectBytes(t) == IF host = "little" THEN Reverse(t) ELSE t

\* The value of the object whose bytes in memory are b.
ObjectValue(b) == IF host = "little" THEN Reverse(b) ELSE b

\* memcpy(data + p, bytes, Len(bytes))
MemWrite(data, p, bytes) ==
    [i \in 1..Len(data) |->
        IF i > p /\ i <= p + Len(bytes) THEN bytes[i - p] ELSE data[i]]

\* The n bytes at data + p.
MemRead(data, p, n) == [i \in 1..n |-> data[p + i]]

-----------------------------------------------------------------------------
(* MsgPack.h: mp_write / mp_read *)

\* d is the pair (buffer, cursor); t the value, already converted to T.
mp_write(d, t) ==
    [data |-> MemWrite(d.data, d.p, ObjectBytes(bswap(t))),
     p    |-> d.p + Len(t)]

\* mp_read that forgets the byte swap.
mp_read_no_swap(data, p, w) ==
    [v |-> ObjectValue(MemRead(data, p, w)), p |-> p + w]

\* Reads a w-byte T at the cursor: [v |-> value, p |-> advanced cursor].
mp_read(data, p, w) ==
    [v |-> bswap(ObjectValue(MemRead(data, p, w))), p |-> p + w]

-----------------------------------------------------------------------------
(* MsgPack.h: unsigned integers *)

\* int constant converted to uint8_t.
U8(n) == <<n % 256>>

\* mp_encode_uint with the first limit off by one: num < 0x7f.
mp_encode_uint_short_fixint(d, num) ==
    IF NumLess(num, U64(127)) THEN
        mp_write(d, Trunc(num, 1))
    ELSE IF NumLeq(num, UINT8_MAX) THEN
        mp_write(mp_write(d, U8(204)), Trunc(num, 1))
    ELSE IF NumLeq(num, UINT16_MAX) THEN
        mp_write(mp_write(d, U8(205)), Trunc(num, 2))
    ELSE IF NumLeq(num, UINT32_MAX) THEN
        mp_write(mp_write(d, U8(206)), Trunc(num, 4))
    ELSE
        mp_write(mp_write(d, U8(207)), Trunc(num, 8))

mp_encode_uint(d, num) ==
    IF NumLeq(num, U64(127)) THEN
        mp_write(d, Trunc(num, 1))
    ELSE IF NumLeq(num, UINT8_MAX) THEN
        mp_write(mp_write(d, U8(204)), Trunc(num, 1))
    ELSE IF NumLeq(num, UINT16_MAX) THEN
        mp_write(mp_write(d, U8(205)), Trunc(num, 2))
    ELSE IF NumLeq(num, UINT32_MAX) THEN
        mp_write(mp_write(d, U8(206)), Trunc(num, 4))
    ELSE
        mp_write(mp_write(d, U8(207)), Trunc(num, 8))

\* The value every aborted or absent result carries.
NoValue == <<>>

\* Result of a decoder: aborted is TRUE when an assert stopped the process.
DecFail(p) == [aborted |-> TRUE, v |-> NoValue, str |-> 0, len |-> NoValue, p |-> p]
DecUint(v, p) == [aborted |-> FALSE, v |-> v, str |-> 0, len |-> NoValue, p |-> p]
DecString(str, len, p) ==
    [aborted |-> FALSE, v |-> NoValue, str |-> str, len |-> len, p |-> p]

\* Payload read of a w-byte T returned as uint64_t.
mp_decode_uint_payload(data, p, w) ==
    LET r == mp_read(data, p, w) IN DecUint(Widen(r.v, 8), r.p)

\* mp_decode_uint without its assert: the default branch returns c.
mp_decode_uint_unchecked(data, p) ==
    LET r == mp_read(data, p, 1)
        c == r.v[1]
    IN  CASE c = 204 -> mp_decode_uint_payload(data, r.p, 1)
          [] c = 205 -> mp_decode_uint_payload(data, r.p, 2)
          [] c = 206 -> mp_decode_uint_payload(data, r.p, 4)
          [] c = 207 -> mp_decode_uint_payload(data, r.p, 8)
          [] OTHER -> DecUint(Widen(r.v, 8), r.p)

mp_decode_uint(data, p) ==
    LET r == mp_read(data, p, 1)
        c == r.v[1]
    IN  CASE c = 204 -> mp_decode_uint_payload(data, r.p, 1)
          [] c = 205 -> mp_decode_uint_payload(data, r.p, 2)
          [] c = 206 -> mp_decode_uint_payload(data, r.p, 4)
          [] c = 207 -> mp_decode_uint_payload(data, r.p, 8)
          [] OTHER ->
                \* assert(c <= 0x7f); return c;
                IF c <= 127 \/ NDEBUG
                THEN DecUint(Widen(r.v, 8), r.p)
                ELSE DecFail(r.p)

-----------------------------------------------------------------------------
(* MsgPack.h: strings *)

U32(n) == NatToNum(n, 4)

\* x with bit k set.
BitSet(x, k) == IF (x \div (2 ^ k)) % 2 = 1 THEN x ELSE x + 2 ^ k

\* 0xa0 | x and c & 0x1f on bytes.
Or0xa0(x) == BitSet(BitSet(x, 5), 7)
And0x1f(c) == c % 32

\* string: the bytes at the source pointer; len: uint32_t.
mp_encode_string(d, string, len) ==
    LET n == NumToNat(len)
        h == IF NumLeq(len, U32(31)) THEN
                 mp_write(d, U8(Or0xa0(Trunc(len, 1)[1])))
             ELSE IF NumLeq(len, Trunc(UINT8_MAX, 4)) THEN
                 mp_write(mp_write(d, U8(217)), Trunc(len, 1))
             ELSE IF NumLeq(len, Trunc(UINT16_MAX, 4)) THEN
                 mp_write(mp_write(d, U8(218)), Trunc(len, 2))
             ELSE
                 mp_write(mp_write(d, U8(219)), Trunc(len, 4))
    IN  [data |-> MemWrite(h.data, h.p, SubSeq(string, 1, n)),
         p    |-> h.p + n]

\* Length-field read of a w-byte T assigned to the uint32_t len.
mp_decode_string_len(data, p, w) ==
    LET r == mp_read(data, p, w)
        len == Widen(r.v, 4)
    IN  DecString(r.p, len, r.p + NumToNat(len))

mp_decode_string(data, p) ==
    LET r == mp_read(data, p, 1)
        c == r.v[1]
    IN  CASE c = 217 -> mp_decode_string_len(data, r.p, 1)
          [] c = 218 -> mp_decode_string_len(data, r.p, 2)
          [] c = 219 -> mp_decode_string_len(data, r.p, 4)
          [] OTHER ->
                \* assert(c >= 0xa0 && c <= 0xbf); len = c & 0x1f;
                IF (c >= 160 /\ c <= 191) \/ NDEBUG
                THEN DecString(r.p, U32(And0x1f(c)), r.p + And0x1f(c))
                ELSE DecFail(r.p)

-----------------------------------------------------------------------------------------------------------------------------------------------------
(* main.cpp: Tuple *)

\* Fields every generated tuple gets (16 in the source).
TEST_FIELD_COUNT_IN_TUPLE == 3
\* Parts a KeyDef can hold (16 in the source).
MAX_NUM_FIELDS_IN_KEY == 3
MAX_TEST_TUPLE_DATA_SIZE == 16 * TEST_FIELD_COUNT_IN_TUPLE
\* Tuples of the global array (5000 in the source).
N == 2

sizeof_offset_t == 4

\* A Tuple of static storage: zero-initialized.
ZeroTuple ==
    [field_count |-> 0, data_used |-> 0, num_offsets |-> 0,
     first_field_offset |-> 0, data |-> Zeros(MAX_TEST_TUPLE_DATA_SIZE)]

\* ((offset_t *)data)[i - 1] read as a value.
get_offset(t, i) ==
    NumToNat(ObjectValue(MemRead(t.data, (i - 1) * sizeof_offset_t, sizeof_offset_t)))

\* data after the assignment ((offset_t *)data)[i - 1] = v.
set_offset(data, i, v) ==
    MemWrite(data, (i - 1) * sizeof_offset_t, ObjectBytes(U32(v)))

\* The cursor get_field returns, as an offset into data.
get_field(t, i) ==
    IF i = 0 THEN t.first_field_offset ELSE get_offset(t, i)

reset(t, a_num_offsets) ==
    [t EXCEPT !.field_count = 0,
              !.num_offsets = a_num_offsets,
              !.data_used = (a_num_offsets - 1) * sizeof_offset_t]

\* The tail of add that saves the position behind the encoded value.
add_finish_end_offset(t, d) ==
    [t EXCEPT
        !.first_field_offset =
            IF t.field_count = 0 THEN d.p % 65536 ELSE @,
        !.data =
            IF t.field_count # 0 /\ t.field_count < t.num_offsets
            THEN set_offset(d.data, t.field_count, d.p)
            ELSE d.data,
        !.data_used = d.p,
        !.field_count = @ + 1]

\* The common tail of both add overloads; d is the buffer and cursor after
\* the value was encoded at data + data_used.
add_finish(t, d) ==
    [t EXCEPT
        !.first_field_offset =
            IF t.field_count = 0 THEN t.data_used % 65536 ELSE @,
        !.data =
            IF t.field_count # 0 /\ t.field_count < t.num_offsets
            THEN set_offset(d.data, t.field_count, t.data_used)
            ELSE d.data,
        !.data_used = d.p,
        !.field_count = @ + 1]

add_uint(t, value) ==
    add_finish(t, mp_encode_uint([data |-> t.data, p |-> t.data_used], value))

add_string(t, string, len) ==
    add_finish(t, mp_encode_string([data |-> t.data, p |-> t.data_used],
                                   string, len))

-----------------------------------------------------------------------------
(* main.cpp: KeyDef and the comparators *)

FieldTypes == {"UINT", "STRING"}
KeyParts == [field_type : FieldTypes, field_no : 0..(TEST_FIELD_COUNT_IN_TUPLE - 1)]
Comparators == {"default_tuple_compare", "tuple_compare_by_first_uint"}

\* Result of a comparator: aborted is TRUE when an assert stopped the process.
CmpValue(r) == [aborted |-> FALSE, r |-> r]
CmpAbort == [aborted |-> TRUE, r |-> 0]

\* memcmp(data1 + s1, data2 + s2, n): the difference of the first pair of
\* bytes that differ, 0 when there is none.
memcmp(data1, s1, data2, s2, n) ==
    LET diff == {k \in 1..n : data1[s1 + k] # data2[s2 + k]}
    IN  IF diff = {} THEN 0
        ELSE LET k == CHOOSE m \in diff : \A o \in diff : m <= o
             IN  data1[s1 + k] - data2[s2 + k]

\* The loop of default_tuple_compare from part i on (0-based), part1 and
\* part2 being the cursors the previous iteration left. reuse is TRUE in the
\* source: the cursors are kept when the field follows the previous one.
RECURSIVE compare_parts(_, _, _, _, _, _, _)
compare_parts(kd, tuple1, tuple2, i, part1, part2, reuse) ==
    IF i >= kd.part_count THEN CmpValue(0)
    ELSE
    LET part == kd.parts[i + 1]
        reposition ==
            \/ i = 0
            \/ ~reuse
            \/ kd.parts[i + 1].field_no # kd.parts[i].field_no + 1
        p1 == IF reposition THEN get_field(tuple1, part.field_no) ELSE part1
        p2 == IF reposition THEN get_field(tuple2, part.field_no) ELSE part2
    IN  IF kd.parts[1].field_type = "UINT" THEN
            LET value1 == mp_decode_uint(tuple1.data, p1)
                value2 == mp_decode_uint(tuple2.data, p2)
            IN  IF value1.aborted \/ value2.aborted THEN CmpAbort
                ELSE IF NumLess(value1.v, value2.v) THEN CmpValue(-1)
                ELSE IF NumLess(value2.v, value1.v) THEN CmpValue(1)
                ELSE compare_parts(kd, tuple1, tuple2, i + 1,
                                   value1.p, value2.p, reuse)
        ELSE
            LET string1 == mp_decode_string(tuple1.data, p1)
                string2 == mp_decode_string(tuple2.data, p2)
            IN  IF string1.aborted \/ string2.aborted THEN CmpAbort
                ELSE
                LET len1 == string1.len
                    len2 == string2.len
                    min_len == IF NumLess(len1, len2) THEN len1 ELSE len2
                    r == memcmp(tuple1.data, string1.str,
                                tuple2.data, string2.str, NumToNat(min_len))
                IN  IF r # 0 THEN CmpValue(r)
                    ELSE IF NumLess(len1, len2) THEN CmpValue(-1)
                    ELSE IF NumLess(len2, len1) THEN CmpValue(1)
                    ELSE compare_parts(kd, tuple1, tuple2, i + 1,
                                       string1.p, string2.p, reuse)

default_tuple_compare(kd, tuple1, tuple2) ==
    compare_parts(kd, tuple1, tuple2, 0, 0, 0, TRUE)

\* tuple_compare_by_first_uint with value1 >= value2 for value1 > value2.
tuple_compare_by_first_uint_geq(kd, tuple1, tuple2) ==
    LET value1 == mp_decode_uint(tuple1.data, tuple1.first_field_offset)
        value2 == mp_decode_uint(tuple2.data, tuple2.first_field_offset)
    IN  IF value1.aborted \/ value2.aborted THEN CmpAbort
        ELSE IF NumLess(value1.v, value2.v) THEN CmpValue(-1)
        ELSE CmpValue(1)

tuple_compare_by_first_uint(kd, tuple1, tuple2) ==
    LET value1 == mp_decode_uint(tuple1.data, tuple1.first_field_offset)
        value2 == mp_decode_uint(tuple2.data, tuple2.first_field_offset)
    IN  IF value1.aborted \/ value2.aborted THEN CmpAbort
        ELSE IF NumLess(value1.v, value2.v) THEN CmpValue(-1)
        ELSE IF NumLess(value2.v, value1.v) THEN CmpValue(1)
        ELSE CmpValue(0)

\* def->tuple_compare_f(def, tuple1, tuple2)
tuple_compare_f(kd, tuple1, tuple2) ==
    IF kd.tuple_compare_f = "tuple_compare_by_first_uint"
    THEN tuple_compare_by_first_uint(kd, tuple1, tuple2)
    ELSE default_tuple_compare(kd, tuple1, tuple2)

-----------------------------------------------------------------------------
(* Codec scenario: a caller encodes one value into its buffer and decodes  *)
(* it again, or hands foreign bytes to a decoder.                          *)

\* Largest cursor position at which the caller starts.
MaxStart == 1
\* Spare bytes the caller's buffer has behind the longest encoding.
Slack == 2

UintInputs ==
    {U64(0), U64(1), U64(127), U64(128), U64(255), U64(256), U64(4660),
     UINT16_MAX, U64(65536), <<0, 0, 0, 0, 18, 52, 86, 120>>, UINT32_MAX,
     <<0, 0, 0, 1, 0, 0, 0, 0>>, <<1, 2, 3, 4, 5, 6, 7, 8>>,
     <<255, 255, 255, 255, 255, 255, 255, 255>>}

\* Lengths that reach each of the four string forms and their borders.
StringLens == {0, 1, 5, 31, 32, 255, 256}
\* A length only the str32 form can hold.
LongStringLen == 65536
StringSeeds == {0, 96}
StringBytes(len, seed) == [i \in 1..len |-> (seed + i) % 256]

\* What follows the marker byte of foreign input.
RawTails == {<<0, 0, 0, 2, 9, 9, 9, 9>>, <<1, 2, 3, 4, 5, 6, 7, 8>>}

\* Content of memory no one has written yet.
FillBytes == {0, 170}

CodecInput(kind, num, str, len, start, fill) ==
    [kind |-> kind, num |-> num, str |-> str, len |-> len, start |-> start,
     fill |-> fill]

CodecInputs ==
    {CodecInput("uint", n, <<>>, NoValue, st, f) :
        n \in UintInputs, st \in 0..MaxStart, f \in FillBytes}
    \cup
    {CodecInput("string", NoValue, StringBytes(l, sd), U32(l), st, f) :
        l \in StringLens, sd \in StringSeeds, st \in 0..MaxStart, f \in FillBytes}
    \cup
    {CodecInput("string", NoValue, StringBytes(LongStringLen, 0),
                U32(LongStringLen), 0, 0)}
    \cup
    {CodecInput("raw", NoValue, <<m>> \o t, NoValue, 0, 0) :
        m \in Byte, t \in RawTails}

\* Capacity the caller provides: the longest encoding of the value.
Capacity(in) ==
    CASE in.kind = "uint" -> 9
      [] in.kind = "string" -> 5 + Len(in.str)
      [] OTHER -> Len(in.str)

NoDec == [op |-> "none", r |-> DecFail(0)]

-----
(* main.cpp: bench_key_def, the driver that generates the tuples of a      *)
(* KeyDef and compares them.                                                *)

Distinct(ps) == \A a, b \in DOMAIN ps : a # b => ps[a].field_no # ps[b].field_no

\* The part lists bench_key_def accepts: no field is named twice.
PartLists ==
    {ps \in UNION {[1..k -> KeyParts] : k \in 1..MAX_NUM_FIELDS_IN_KEY} :
        Distinct(ps)}

FirstUint == <<[field_type |-> "UINT", field_no |-> 0]>>

\* main installs default_tuple_compare; the fast path is the alternative it
\* names for the key on the first uint field.
KeyDefs ==
    {[part_count |-> Len(ps), parts |-> ps, tuple_compare_f |-> f] :
        ps \in PartLists, f \in {"default_tuple_compare"}}
    \cup
    {[part_count |-> 1, parts |-> FirstUint,
      tuple_compare_f |-> "tuple_compare_by_first_uint"]}

\* field_type[j] as bench_key_def computes it.
field_type(kd, j) ==
    IF \E k \in 1..kd.part_count : kd.parts[k].field_no = j
    THEN LET k == CHOOSE m \in 1..kd.part_count : kd.parts[m].field_no = j
         IN  kd.parts[k].field_type
    ELSE "UNDEFINED"

max_field_no(kd) ==
    CHOOSE m \in 0..(TEST_FIELD_COUNT_IN_TUPLE - 1) :
        /\ \E k \in 1..kd.part_count : kd.parts[k].field_no = m
        /\ \A k \in 1..kd.part_count : kd.parts[k].field_no <= m

\* Values the generator draws for the fields of the key ...
KeyUints == {U64(5), U64(300)}
KeyStrings == {<<97>>, <<97, 98>>, <<98>>}
\* ... and for the fields no key part names.
OtherUints == {U64(70000)}
OtherStrings == {<<120, 121, 122>>}

TupleIds == 0..(N - 1)

NoCmp ==
    [done |-> FALSE,
     res |-> [i \in TupleIds |-> [j \in TupleIds |->
                [called |-> FALSE, ret |-> CmpValue(0)]]]]

Init ==
    /\ host \in Hosts
    /\ NDEBUG \in BOOLEAN
    /\ def \in KeyDefs
    /\ tuples = [i \in TupleIds |-> ZeroTuple]
    /\ gi = 0
    /\ gj = -1
    /\ fields = [i \in TupleIds |-> <<>>]
    /\ cmp = NoCmp
    /\ cpc = "idle"
    /\ input = CodecInput("none", NoValue, <<>>, NoValue, 0, 0)
    /\ buf = <<>>
    /\ wcur = 0
    /\ dec = NoDec

\* tuples[i].reset(max_field_no + 1)
bench_reset ==
    /\ gi < N
    /\ gj = -1
    /\ tuples' = [tuples EXCEPT ![gi] = reset(@, max_field_no(def) + 1)]
    /\ fields' = [fields EXCEPT ![gi] = <<>>]
    /\ gj' = 0
    /\ UNCHANGED <<host, NDEBUG, cvars, def, gi, cmp>>

\* The loop counters after field gj was added.
bench_advance ==
    IF gj + 1 < TEST_FIELD_COUNT_IN_TUPLE
    THEN gj' = gj + 1 /\ gi' = gi
    ELSE gj' = -1 /\ gi' = gi + 1

\* tuples[i].add(value)
bench_add_uint ==
    /\ gi < N
    /\ gj >= 0
    /\ field_type(def, gj) \in {"UINT", "UNDEFINED"}
    /\ \E value \in IF field_type(def, gj) = "UINT" THEN KeyUints ELSE OtherUints :
          /\ tuples' = [tuples EXCEPT ![gi] = add_uint(@, value)]
          /\ fields' = [fields EXCEPT
                ![gi] = Append(@, [type |-> "UINT", num |-> value, str |-> <<>>])]
    /\ bench_advance
    /\ UNCHANGED <<host, NDEBUG, cvars, def, cmp>>

\* tuples[i].add(string, len)
bench_add_string ==
    /\ gi < N
    /\ gj >= 0
    /\ field_type(def, gj) \in {"STRING", "UNDEFINED"}
    /\ \E string \in IF field_type(def, gj) = "STRING" THEN KeyStrings
                     ELSE OtherStrings :
          /\ tuples' = [tuples EXCEPT
                ![gi] = add_string(@, string, U32(Len(string)))]
          /\ fields' = [fields EXCEPT
                ![gi] = Append(@, [type |-> "STRING", num |-> NoValue,
                                   str |-> string])]
    /\ bench_advance
    /\ UNCHANGED <<host, NDEBUG, cvars, def, cmp>>

\* The calls of the test loop in the order it makes them: call number
\* i * N + j compares tuples[i] with tuples[j].
call_no(i, j) == i * N + j

\* The test itself: for i, for j: r += def->tuple_compare_f(def, &tuples[i],
\* &tuples[j]). Every call is recorded; the loop ends at the first call that
\* aborts (a failing assert), and the calls behind it are never made.
bench_test ==
    /\ gi = N
    /\ ~cmp.done
    /\ \E ret \in {[i \in TupleIds |-> [j \in TupleIds |->
                      tuple_compare_f(def, tuples[i], tuples[j])]]} :
       \E aborting \in {{c \in 0..(N * N - 1) : ret[c \div N][c % N].aborted}} :
          cmp' = [done |-> TRUE,
                  res |-> [i \in TupleIds |-> [j \in TupleIds |->
                      [called |-> \A c \in aborting : call_no(i, j) <= c,
                       ret |-> ret[i][j]]]]]
    /\ UNCHANGED <<host, NDEBUG, cvars, def, tuples, gi, gj, fields>>

Next == bench_reset \/ bench_add_uint \/ bench_add_string \/ bench_test

Spec == Init /\ [][Next]_vars

\* main's first benchmark: the key on the first uint field, with either
\* comparator installed.
FirstUintInit == Init /\ def.parts = FirstUint

FirstUintSpec == FirstUintInit /\ [][Next]_vars

-----------------------------------------------------------------------------
(* Tuple scenario: a caller resets tuples[0] and appends fields to it *)

\* Values the caller appends: one of each uint form, one of each string
\* form that fits the buffer.
TupleUints ==
    {U64(42), U64(200), U64(300), U64(70000), <<0, 0, 0, 1, 0, 0, 0, 0>>}
TupleStrings == {<<>>, <<104, 101, 108, 108, 111>>, StringBytes(32, 96)}

\* The encoding of at most need bytes fits behind data_used.
Fits(t, need) == t.data_used + need <= MAX_TEST_TUPLE_DATA_SIZE

\* The storage of the tuple was zeroed (static) or holds what was there.
TupleInit ==
    /\ host \in Hosts
    /\ NDEBUG \in BOOLEAN
    /\ def = [part_count |-> 1, parts |-> FirstUint,
              tuple_compare_f |-> "default_tuple_compare"]
    /\ \E fill \in FillBytes :
          tuples = [i \in TupleIds |->
              [ZeroTuple EXCEPT
                  !.data = [k \in 1..MAX_TEST_TUPLE_DATA_SIZE |-> fill]]]
    /\ gi = 0
    /\ gj = -1
    /\ fields = [i \in TupleIds |-> <<>>]
    /\ cmp = NoCmp
    /\ cpc = "idle"
    /\ input = CodecInput("none", NoValue, <<>>, NoValue, 0, 0)
    /\ buf = <<>>
    /\ wcur = 0
    /\ dec = NoDec

\* tuples[0].reset(a_num_offsets), for a tuple not reset yet
tuple_reset ==
    /\ tuples[0].num_offsets = 0
    /\ \E a_num_offsets \in 1..(TEST_FIELD_COUNT_IN_TUPLE + 1) :
          tuples' = [tuples EXCEPT ![0] = reset(@, a_num_offsets)]
    /\ fields' = [fields EXCEPT ![0] = <<>>]
    /\ UNCHANGED <<host, NDEBUG, cvars, def, gi, gj, cmp>>

\* tuples[0].add(value)
tuple_add_uint ==
    /\ tuples[0].num_offsets > 0
    /\ tuples[0].field_count < TEST_FIELD_COUNT_IN_TUPLE
    /\ Fits(tuples[0], 9)
    /\ \E value \in TupleUints :
          /\ tuples' = [tuples EXCEPT ![0] = add_uint(@, value)]
          /\ fields' = [fields EXCEPT
                ![0] = Append(@, [type |-> "UINT", num |-> value, str |-> <<>>])]
    /\ UNCHANGED <<host, NDEBUG, cvars, def, gi, gj, cmp>>

\* tuples[0].add(string, len)
tuple_add_string ==
    /\ tuples[0].num_offsets > 0
    /\ tuples[0].field_count < TEST_FIELD_COUNT_IN_TUPLE
    /\ \E string \in TupleStrings :
          /\ Fits(tuples[0], 5 + Len(string))
          /\ tuples' = [tuples EXCEPT
                ![0] = add_string(@, string, U32(Len(string)))]
          /\ fields' = [fields EXCEPT
                ![0] = Append(@, [type |-> "STRING", num |-> NoValue,
                                  str |-> string])]
    /\ UNCHANGED <<host, NDEBUG, cvars, def, gi, gj, cmp>>

TupleNext == tuple_reset \/ tuple_add_uint \/ tuple_add_string

TupleSpec == TupleInit /\ [][TupleNext]_vars

-----------------------------------------------------------------------------
(* Codec scenario: its steps *)

CodecInit ==
    /\ host \in Hosts
    /\ NDEBUG \in BOOLEAN
    /\ input \in CodecInputs
    /\ buf = IF input.kind = "raw"
             THEN input.str
             ELSE [i \in 1..(input.start + Capacity(input) + Slack) |-> input.fill]
    /\ cpc = IF input.kind = "raw" THEN "encoded" ELSE "start"
    /\ wcur = input.start
    /\ dec = NoDec
    /\ def = [part_count |-> 1, parts |-> FirstUint,
              tuple_compare_f |-> "default_tuple_compare"]
    /\ tuples = [i \in TupleIds |-> ZeroTuple]
    /\ gi = 0
    /\ gj = -1
    /\ fields = [i \in TupleIds |-> <<>>]
    /\ cmp = NoCmp

EncodeUint ==
    /\ cpc = "start"
    /\ input.kind = "uint"
    /\ LET d == mp_encode_uint([data |-> buf, p |-> input.start], input.num)
       IN  /\ buf' = d.data
           /\ wcur' = d.p
    /\ cpc' = "encoded"
    /\ UNCHANGED <<host, NDEBUG, input, dec, bvars>>

EncodeString ==
    /\ cpc = "start"
    /\ input.kind = "string"
    /\ LET d == mp_encode_string([data |-> buf, p |-> input.start],
                                 input.str, input.len)
       IN  /\ buf' = d.data
           /\ wcur' = d.p
    /\ cpc' = "encoded"
    /\ UNCHANGED <<host, NDEBUG, input, dec, bvars>>

DecodeUint ==
    /\ cpc = "encoded"
    /\ input.kind \in {"uint", "raw"}
    /\ dec' = [op |-> "uint", r |-> mp_decode_uint(buf, input.start)]
    /\ cpc' = "decoded"
    /\ UNCHANGED <<host, NDEBUG, input, buf, wcur, bvars>>

DecodeString ==
    /\ cpc = "encoded"
    /\ input.kind \in {"string", "raw"}
    /\ dec' = [op |-> "string", r |-> mp_decode_string(buf, input.start)]
    /\ cpc' = "decoded"
    /\ UNCHANGED <<host, NDEBUG, input, buf, wcur, bvars>>

CodecNext == EncodeUint \/ EncodeString \/ DecodeUint \/ DecodeString

CodecSpec == CodecInit /\ [][CodecNext]_vars

-----------------------------------------------------------------------------
(* Properties of the codec, checked under CodecSpec *)

\* The position the caller's cursor started at, and what the encoder wrote.
EncStart == input.start
EncSize == wcur - input.start
Encoded == cpc \in {"encoded", "decoded"} /\ input.kind \in {"uint", "string"}

\* Number of bytes of num behind its leading zero bytes.
SignificantBytes(num) ==
    Cardinality({i \in 1..Len(num) : \E j \in 1..i : num[j] # 0})

\* The size of the smallest MsgPack form that holds the uint64 num.
SmallestUintSize(num) ==
    CASE SignificantBytes(num) <= 1 /\ num[8] <= 127 -> 1
      [] SignificantBytes(num) <= 1 /\ num[8] > 127 -> 2
      [] SignificantBytes(num) = 2 -> 3
      [] SignificantBytes(num) \in 3..4 -> 5
      [] OTHER -> 9

\* The marker byte of each size (none for the 1-byte form).
UintMarker(size) ==
    CASE size = 2 -> 204 [] size = 3 -> 205 [] size = 5 -> 206 [] OTHER -> 207

\* C2: decoding what mp_encode_uint / mp_encode_string wrote returns the
\* value (for a string: a view of exactly len bytes equal to it), and the
\* decode cursor ends where the encode cursor ended.
C2_RoundTrip ==
    (cpc = "decoded" /\ input.kind \in {"uint", "string"}) =>
        /\ ~dec.r.aborted
        /\ dec.r.p = wcur
        /\ input.kind = "uint" =>
              /\ dec.op = "uint"
              /\ dec.r.v = input.num
        /\ input.kind = "string" =>
              /\ dec.op = "string"
              /\ dec.r.len = input.len
              /\ NumToNat(dec.r.len) = Len(input.str)
              /\ MemRead(buf, dec.r.str, Len(input.str)) = input.str

\* C2 witness: a string of the 2-byte length form was encoded and decoded on
\* a big-endian host.
C2_Witness ==
    /\ cpc = "decoded"
    /\ input.kind = "string"
    /\ Len(input.str) = 256
    /\ host = "big"
    /\ dec.op = "string"

\* C3: mp_encode_uint writes the smallest of the five forms that holds the
\* value, with that form's marker, advances the cursor by exactly the bytes
\* written (1, 2, 3, 5 or 9) and writes nothing else.
C3_MinimalEncoding ==
    (Encoded /\ input.kind = "uint") =>
        LET size == SmallestUintSize(input.num)
        IN  /\ EncSize = size
            /\ size = 1 => buf[EncStart + 1] = input.num[8]
            /\ size > 1 => buf[EncStart + 1] = UintMarker(size)
            /\ size = 2 => buf[EncStart + 2] = input.num[8]
            /\ \A i \in 1..Len(buf) :
                  (i <= EncStart \/ i > EncStart + size) => buf[i] = input.fill

\* C3 witness: 128, the smallest value that needs a marker, was encoded.
C3_Witness ==
    /\ cpc = "encoded"
    /\ input.kind = "uint"
    /\ input.num = U64(128)
    /\ EncSize = 2

\* C7: every multi-byte integer the codec writes (the 2-, 4- and 8-byte uint
\* payloads, the 2- and 4-byte string lengths) is on the wire most significant
\* byte first, whatever the byte order of the host.
C7_BigEndianWire ==
    Encoded =>
        /\ (input.kind = "uint" /\ EncSize \in {3, 5, 9}) =>
              MemRead(buf, EncStart + 1, EncSize - 1)
                  = Trunc(input.num, EncSize - 1)
        /\ (input.kind = "string" /\ buf[EncStart + 1] = 218) =>
              MemRead(buf, EncStart + 1, 2) = Trunc(input.len, 2)
        /\ (input.kind = "string" /\ buf[EncStart + 1] = 219) =>
              MemRead(buf, EncStart + 1, 4) = Trunc(input.len, 4)

\* The first byte handed to a decoder is none of its markers.
MalformedUint(c) == c > 127 /\ c \notin {204, 205, 206, 207}
MalformedString(c) == c \notin 160..191 /\ c \notin {217, 218, 219}
DecodedRaw(op) == cpc = "decoded" /\ input.kind = "raw" /\ dec.op = op

\* C9, as claimed: a decoder fails, and returns no value, whenever the marker
\* byte is none of those it recognizes.
C9_MalformedAlwaysFails ==
    /\ (DecodedRaw("uint") /\ MalformedUint(input.str[1])) =>
          dec.r.aborted /\ dec.r.v = NoValue
    /\ (DecodedRaw("string") /\ MalformedString(input.str[1])) =>
          dec.r.aborted /\ dec.r.len = NoValue

\* C9, amended: the check of the marker is an assert. Built with assertions
\* a decoder aborts on a marker it does not recognize and returns no value;
\* built with NDEBUG mp_decode_uint returns the marker byte itself, the
\* cursor one byte on, and mp_decode_string a view of the (marker & 0x1f)
\* bytes behind the marker, the cursor behind the view.
C9_MalformedFailsUnlessNDEBUG ==
    /\ (DecodedRaw("uint") /\ MalformedUint(input.str[1])) =>
          IF NDEBUG
          THEN /\ ~dec.r.aborted
               /\ dec.r.v = Widen(<<input.str[1]>>, 8)
               /\ dec.r.p = EncStart + 1
          ELSE dec.r.aborted /\ dec.r.v = NoValue
    /\ (DecodedRaw("string") /\ MalformedString(input.str[1])) =>
          IF NDEBUG
          THEN /\ ~dec.r.aborted
               /\ dec.r.len = U32(input.str[1] % 32)
               /\ dec.r.str = EncStart + 1
               /\ dec.r.p = EncStart + 1 + (input.str[1] % 32)
          ELSE dec.r.aborted /\ dec.r.len = NoValue

\* C9 witness: built with assertions, mp_decode_uint was handed the string
\* marker 0xa5 and aborted.
C9_Witness ==
    /\ DecodedRaw("uint")
    /\ input.str[1] = 165
    /\ ~NDEBUG
    /\ dec.r.aborted

-----------------------------------------------------------------------------
(* Properties of the Tuple, checked under TupleSpec, and of the comparators, *)
(* checked under Spec and FirstUintSpec                                    *)

Sign(x) == IF x < 0 THEN -1 ELSE IF x > 0 THEN 1 ELSE 0
Min(a, b) == IF a < b THEN a ELSE b

\* The value appended as field f (0-based) of tuples[t].
FieldValue(t, f) == fields[t][f + 1]

\* Order of two unsigned integers: -1, 0 or 1.
UintOrder(a, b) == IF NumLess(a, b) THEN -1 ELSE IF NumLess(b, a) THEN 1 ELSE 0

\* Lexicographic order of two byte strings: the first differing byte within
\* the shorter length decides, then the shorter string is less.
StringOrder(s1, s2) ==
    LET diff == {k \in 1..Min(Len(s1), Len(s2)) : s1[k] # s2[k]}
    IN  IF diff # {}
        THEN LET k == CHOOSE m \in diff : \A o \in diff : m <= o
             IN  Sign(s1[k] - s2[k])
        ELSE Sign(Len(s1) - Len(s2))

\* Order of part k of kd in tuples[a] and tuples[b], by the part's own type.
PartOrder(kd, k, a, b) ==
    LET x == FieldValue(a, kd.parts[k].field_no)
        y == FieldValue(b, kd.parts[k].field_no)
    IN  IF kd.parts[k].field_type = "UINT"
        THEN UintOrder(x.num, y.num)
        ELSE StringOrder(x.str, y.str)

\* Lexicographic order of the selected field sequences.
KeyOrder(kd, a, b) ==
    LET diff == {k \in 1..kd.part_count : PartOrder(kd, k, a, b) # 0}
    IN  IF diff = {} THEN 0
        ELSE PartOrder(kd, CHOOSE m \in diff : \A o \in diff : m <= o, a, b)

\* tuples[t] holds every field kd names, encoded with the type kd declares,
\* inside its indexed prefix.
Compatible(kd, t) ==
    \A k \in 1..kd.part_count :
        /\ kd.parts[k].field_no < Len(fields[t])
        /\ kd.parts[k].field_no < tuples[t].num_offsets
        /\ FieldValue(t, kd.parts[k].field_no).type = kd.parts[k].field_type

Tested == cmp.done /\ \A t \in TupleIds : Compatible(def, t)

\* C1: default_tuple_compare decodes every key part with the part's own
\* type, so on compatible tuples it returns a value whose sign is the
\* lexicographic order of the selected typed fields.
C1_KeyOrder ==
    (Tested /\ def.tuple_compare_f = "default_tuple_compare") =>
        \A a, b \in TupleIds :
            /\ cmp.res[a][b].called
            /\ ~cmp.res[a][b].ret.aborted
            /\ Sign(cmp.res[a][b].ret.r) = KeyOrder(def, a, b)

\* Size of the encoding of an appended value.
EncodedSize(x) ==
    IF x.type = "UINT" THEN SmallestUintSize(x.num)
    ELSE CASE Len(x.str) <= 31 -> 1 + Len(x.str)
           [] Len(x.str) \in 32..255 -> 2 + Len(x.str)
           [] Len(x.str) \in 256..65535 -> 3 + Len(x.str)
           [] OTHER -> 5 + Len(x.str)

\* Where field f of tuples[t] has to start: field 0 behind the offset slots,
\* every other field where the one before it ends.
RECURSIVE FieldStart(_, _)
FieldStart(t, f) ==
    IF f = 0 THEN (tuples[t].num_offsets - 1) * 4
    ELSE FieldStart(t, f - 1) + EncodedSize(FieldValue(t, f - 1))

\* The cursor at p in tuples[t] is on the first byte of an encoding of x
\* that ends at q.
HoldsField(t, p, x, q) ==
    IF x.type = "UINT"
    THEN LET r == mp_decode_uint(tuples[t].data, p)
         IN  ~r.aborted /\ r.v = x.num /\ r.p = q
    ELSE LET r == mp_decode_string(tuples[t].data, p)
         IN  /\ ~r.aborted
             /\ r.p = q
             /\ MemRead(tuples[t].data, r.str, NumToNat(r.len)) = x.str

\* C4: after reset(n) and k appends, get_field(i) of every field i below
\* min(k, n) is the first byte of field i's encoding: field 0 starts at
\* (n - 1) * 4, field i + 1 where field i ends, and no later append has
\* changed the offset or the bytes of an earlier field.
C4_FieldOffsets ==
    \A t \in TupleIds :
        /\ tuples[t].field_count = Len(fields[t])
        /\ \A f \in 0..(Min(Len(fields[t]), tuples[t].num_offsets) - 1) :
              /\ get_field(tuples[t], f) = FieldStart(t, f)
              /\ HoldsField(t, get_field(tuples[t], f), FieldValue(t, f),
                            FieldStart(t, f + 1))
        /\ Len(fields[t]) > 0 =>
              tuples[t].data_used = FieldStart(t, Len(fields[t]))

\* C4 witness: indexed prefix 2, fields 42, "hello" and one more appended
\* after them: get_field(0) is on the byte 42 behind the one offset slot, and
\* get_field(1) on the marker 0xa5.
C4_Witness ==
    /\ tuples[0].num_offsets = 2
    /\ tuples[0].field_count = 3
    /\ FieldValue(0, 0).num = U64(42)
    /\ FieldValue(0, 1).str = <<104, 101, 108, 108, 111>>
    /\ get_field(tuples[0], 0) = 4
    /\ tuples[0].data[get_field(tuples[0], 0) + 1] = 42
    /\ get_field(tuples[0], 1) = 5
    /\ tuples[0].data[get_field(tuples[0], 1) + 1] = 165

\* C5: on compatible tuples the results of default_tuple_compare are those
\* of one total order: compare(A, A) = 0, compare(A, B) and compare(B, A)
\* have opposite signs, and compare(A, B) <= 0 with compare(B, C) <= 0
\* implies compare(A, C) <= 0.
C5_TotalOrder ==
    Tested =>
        \A a, b, c \in TupleIds :
            LET ab == default_tuple_compare(def, tuples[a], tuples[b])
                ba == default_tuple_compare(def, tuples[b], tuples[a])
                bc == default_tuple_compare(def, tuples[b], tuples[c])
                ac == default_tuple_compare(def, tuples[a], tuples[c])
                aa == default_tuple_compare(def, tuples[a], tuples[a])
            IN  /\ ~aa.aborted /\ ~ab.aborted /\ ~ba.aborted
                /\ ~bc.aborted /\ ~ac.aborted
                /\ aa.r = 0
                /\ Sign(ab.r) = -Sign(ba.r)
                /\ (ab.r <= 0 /\ bc.r <= 0) => ac.r <= 0

\* The parts of kd name consecutive fields.
Consecutive(kd) ==
    \A k \in 2..kd.part_count :
        kd.parts[k].field_no = kd.parts[k - 1].field_no + 1

\* The comparator that repositions the cursors with get_field for every part.
reposition_tuple_compare(kd, tuple1, tuple2) ==
    compare_parts(kd, tuple1, tuple2, 0, 0, 0, FALSE)

\* C6: for a key whose parts name consecutive fields, default_tuple_compare,
\* which keeps the cursors the previous part left, returns on compatible
\* tuples what the comparator that repositions them for every part returns.
C6_CursorReuseTransparent ==
    (Tested /\ Consecutive(def)) =>
        \A a, b \in TupleIds :
            default_tuple_compare(def, tuples[a], tuples[b])
                = reposition_tuple_compare(def, tuples[a], tuples[b])

\* C8: a STRING key part is compared as a string: when the parts before it
\* are equal and its two strings differ, the comparator returns the sign of
\* their lexicographic order (first differing byte within the shorter
\* length, then shorter is less); when they are equal too and the part is
\* the last one, it returns 0.
C8_StringOrder ==
    Tested =>
        \A a, b \in TupleIds : \A k \in 1..def.part_count :
            (/\ def.parts[k].field_type = "STRING"
             /\ \A m \in 1..(k - 1) : PartOrder(def, m, a, b) = 0) =>
                LET s1 == FieldValue(a, def.parts[k].field_no).str
                    s2 == FieldValue(b, def.parts[k].field_no).str
                    res == default_tuple_compare(def, tuples[a], tuples[b])
                IN  /\ s1 # s2 =>
                        ~res.aborted /\ Sign(res.r) = StringOrder(s1, s2)
                    /\ (s1 = s2 /\ k = def.part_count) =>
                        ~res.aborted /\ res.r = 0

\* C10: for the key [(field 0, UINT)] tuple_compare_by_first_uint returns
\* exactly what default_tuple_compare returns (-1, 0 or 1), so the calls
\* made through def->tuple_compare_f return the same with either installed.
C10_FastPathEquivalent ==
    (Tested /\ def.parts = FirstUint) =>
        \A a, b \in TupleIds :
            LET fast == tuple_compare_by_first_uint(def, tuples[a], tuples[b])
                slow == default_tuple_compare(def, tuples[a], tuples[b])
            IN  /\ ~fast.aborted
                /\ fast.r \in {-1, 0, 1}
                /\ fast = slow
                /\ cmp.res[a][b].called
                /\ cmp.res[a][b].ret = slow

\* C10 witness: with the fast path installed the test compared a tuple
\* whose first field is smaller with one whose first field is larger.
C10_Witness ==
    /\ cmp.done
    /\ def.tuple_compare_f = "tuple_compare_by_first_uint"
    /\ cmp.res[0][1].called
    /\ cmp.res[0][1].ret.r = -1
    /\ cmp.res[1][0].ret.r = 1

====
